---- MODULE Spec2Model ----
(***************************************************************************)
(* State-machine model of the query workflow of the Query Management       *)
(* System: the Express handlers of server/routes.ts and                    *)
(* server/oracle-routes.js acting on the record store of                   *)
(* server/storage.ts (tables of shared/schema.ts).                         *)
(*                                                                         *)
(* One action per HTTP handler.  A handler is taken as one step: the       *)
(* requests are served one after the other.  Every action records the      *)
(* response it sends in res, so that a refused request is a visible step.  *)
(*                                                                         *)
(* Three specifications:                                                   *)
(*   Spec        the approval workflow on the record store; the outcomes   *)
(*               of the target database are inputs of the oracle handlers; *)
(*   OracleSpec  the oracle handlers and the functions of                  *)
(*               oracle-integration.js acting on the target database, from *)
(*               an approved Query Record;                                 *)
(*   PoolSpec    getConnection taken apart at its awaits, run by           *)
(*               concurrent requests.                                      *)
(***************************************************************************)
EXTENDS Integers, Sequences, FiniteSets, TLC

\* ------------------------------------------------------------------ bounds
\* Number of Query Records that can be created.
MaxQueries == 1
\* Number of Approval Records that can be created.
MaxApprovals == 3
\* Connections that stay open on one target (poolMax is larger in
\* serverConfigurations).
MaxOpen == 1
\* The last reading of Date.now().
MaxClock == 2
\* Pools oracledb.createPool makes in one run of the process.
MaxPools == 3

\* ------------------------------------------------------------- value sets
\* users.role: 'user', 'team_manager', 'skip_manager'
Users == {"u1", "tm1", "sm1"}

UserRole(u) ==
  CASE u = "tm1" -> "team_manager"
    [] u = "sm1" -> "skip_manager"
    [] OTHER     -> "user"

\* The users who create Query Records here: an ordinary user and a manager.
Submitters == {"u1", "tm1"}

\* storage.getUsersByRole(role): the users holding the role, in name order.
getUsersByRole(role) ==
  CASE role = "team_manager" -> <<"tm1">>
    [] role = "skip_manager" -> <<"sm1">>
    [] OTHER                 -> <<"u1">>

queryStatusEnum ==
  {"draft", "submitted", "team_manager_approved", "skip_manager_approved",
   "approved", "rejected", "executed", "failed", "rolled_back"}

\* The statement kinds that are submitted here: one read-only, one mutating.
\* The statement text of a record starts with the verb of its query type.
queryTypeEnum == {"select", "update"}

\* approvals.comments: null until a decision writes req.body.comments.
NoComment == "null"
Comments == {"c1"}

\* queries.rollbackData as written by POST /oracle/execute-query: null, the
\* object createTableBackup returns on success, or the failed result of
\* executeQuery that it returns otherwise (backupTableName undefined).
NoBackup == [isNull |-> TRUE, success |-> FALSE, backupTableName |-> 0]

\* The statement texts (query.content): one per shape the handlers tell
\* apart, all on one table t.  "DELETE t" is a DELETE without FROM.
Statements ==
  {"SELECT FROM t", "INSERT INTO t", "UPDATE t", "DELETE FROM t", "DELETE t"}

\* The query type a statement is filed under.
TypeOf(content) ==
  CASE content = "SELECT FROM t" -> "select"
    [] content = "INSERT INTO t" -> "insert"
    [] content = "UPDATE t"      -> "update"
    [] OTHER                     -> "delete"

\* The statement text of the records created in Spec.
StatementOf(qtype) == IF qtype = "select" THEN "SELECT FROM t" ELSE "UPDATE t"

\* Keys of serverConfigurations.
Targets == {"tpaoeldbsd001", "tpaoeldbsr001"}
\* queries.serverId of the records here.
QueryServer == "tpaoeldbsd001"

\* Schema of the connecting user (serverConfigurations[...].user), where an
\* unqualified table name of a statement resolves, and the schema name the
\* handlers pass to createTableBackup and executeRollback.
SessionSchema == "ORACLE_QUERY_MGMT"
BackupSchema == "BACKUP_SCHEMA"

\* Contents of a table, as a whole; a truncated table is empty.
Contents == {"rows0", "rows1"}
EmptyTable == "empty"

\* How one getConnection + execute sequence ends: oracledb.createPool
\* rejects, pool.getConnection rejects, connection.execute rejects, or
\* nothing does.
Outcomes == {"ok", "no_pool", "no_connection", "error"}

\* Where executeRollback fails, if it does.
RestoreFailures ==
  {"none", "no_pool", "no_connection", "truncate", "insert", "commit"}

\* Concurrent requests of PoolSpec.
Callers == {"r1", "r2"}

\* Ids a request can name: the ids of the records that can exist.
\* Where a dry run can fail: obtaining the connection, EXPLAIN PLAN, the
\* SELECT that retrieves the plan, the count query.
DryRunFailures == {"none", "no_pool", "no_connection", "explain",
                   "retrieve", "count"}
\* The statement id 'QMS_DRY_RUN'; 'DRYRUN_' + Date.now() is the reading.
QmsDryRun == 0
\* No dry run has returned yet.
NoDryRun == [success |-> FALSE, content |-> "none", estimate |-> "none"]
\* The tables discoverDatabaseMetadata finds on a target: schema, table.
DiscoveredTables == << [schemaName |-> "HR", tableName |-> "EMP"],
                       [schemaName |-> "HR", tableName |-> "DEPT"] >>
\* Where discoverDatabaseMetadata can fail: obtaining the connection, the
\* tables query, the columns query of table 1 or of table 2.
DiscoveryFailures == {"none", "no_pool", "no_connection", "tables",
                      "columns1", "columns2"}
\* A request that is not executing.
IdleExecution == [pc |-> "idle", queryId |-> 0, content |-> "none",
                  backupInfo |-> NoBackup, backupTableName |-> 0,
                  success |-> FALSE]
\* A request that is not discovering.
IdleDiscovery == [pc |-> "idle", serverId |-> QueryServer, todo |-> <<>>,
                  existing |-> FALSE]
QueryIdInputs == 1..MaxQueries
ApprovalIdInputs == 1..MaxApprovals

VARIABLES
  queries,    \* table queries: sequence of Query Records, id = index
  approvals,  \* table approvals: sequence of Approval Records, id = index
  res,        \* the response of the last request served
  pools,      \* the Map pools: serverId -> pool (index in created)
  created,    \* the pools oracledb.createPool has made: their serverId
  open,       \* per target, the connections acquired and not closed
  got,        \* the last getConnection call: target, pool it used
  tables,     \* table t of the target, per schema that has one
  backups,    \* the backup tables of BACKUP_SCHEMA: name -> contents
  clock,      \* Date.now()
  restore,    \* the last executeRollback: where it failed, how its
              \* transaction ended
  preExecute, \* contents of the statement's table when Execute last began
  call,       \* PoolSpec: where each concurrent request stands
  closed,     \* the pools of created that pool.close() has closed
  connections,\* OracleService.connections: serverId -> pool
  planTable,  \* PLAN_TABLE of the target: the statement ids with rows
  dry,        \* the result of the last dry run
  catalog,    \* table database_tables: sequence of rows
  disc,       \* where each discover-metadata request stands
  executing,  \* where each execute-query request stands
  runs        \* per Query Record, the times its statement ran on the target

adminVars == <<closed, connections, planTable, dry, catalog, disc>>
execVars == <<executing, runs>>
oracleVars == <<pools, created, open, got, tables, backups, clock,
                restore, preExecute, call, adminVars, execVars>>
vars == <<queries, approvals, res, pools, created, open, got, tables,
          backups, clock, restore, preExecute, call, adminVars, execVars>>

Response(op, id, code) == [op |-> op, id |-> id, code |-> code]

\* --------------------------------------------------------------- storage
\* storage.getQuery(id): the record, or undefined.
QueryExists(id) == id \in DOMAIN queries
ApprovalExists(id) == id \in DOMAIN approvals

\* storage.updateQuery(id, updates): UPDATE ... WHERE id = :id, no other
\* condition; updates is a record of the columns to set.
updateQuery(qs, id, updates) ==
  [qs EXCEPT ![id] =
     [f \in DOMAIN qs[id] |->
        IF f \in DOMAIN updates THEN updates[f] ELSE qs[id][f]]]

\* storage.updateApproval(id, updates): UPDATE ... WHERE id = :id, no other
\* condition.  An absent comments field leaves the column as it is.
updateApproval(as, id, status, comments) ==
  [as EXCEPT ![id] =
     [@ EXCEPT !.status = status,
               !.comments = IF comments = NoComment THEN @ ELSE comments]]

\* storage.createApproval(approval)
createApproval(as, queryId, approverType, approverId) ==
  Append(as, [queryId |-> queryId, approverType |-> approverType,
              approverId |-> approverId, status |-> "pending",
              comments |-> NoComment])

\* ----------------------------------------------------------------- Init
\* No pool cached or created, no connection open, no request under way;
\* table t of the session schema holds rows0, and BACKUP_SCHEMA has a
\* table t or not (backupSchemaTable: its contents, or none).
OracleInit(backupSchemaTable) ==
  /\ pools = <<>>
  /\ created = <<>>
  /\ open = [t \in Targets |-> 0]
  /\ got = [serverId |-> QueryServer, pool |-> 0]
  /\ tables = [s \in {SessionSchema} \cup
                      (IF backupSchemaTable = {} THEN {} ELSE {BackupSchema})
                 |-> IF s = SessionSchema THEN "rows0"
                     ELSE CHOOSE c \in backupSchemaTable : TRUE]
  /\ backups = <<>>
  /\ clock = 1
  /\ restore = [failedAt |-> "none", txn |-> "none"]
  /\ preExecute = "rows0"
  /\ call = [c \in Callers |-> [pc |-> "idle", serverId |-> QueryServer,
                                 pool |-> 0]]
  /\ closed = {}
  /\ connections = <<>>
  /\ planTable = {}
  /\ dry = NoDryRun
  /\ catalog = <<>>
  /\ disc = [c \in Callers |-> IdleDiscovery]
  /\ executing = [c \in Callers |-> IdleExecution]
  /\ runs = [id \in QueryIdInputs |-> 0]

Init ==
  /\ queries = <<>>
  /\ approvals = <<>>
  /\ res = Response("none", 0, 0)
  /\ OracleInit({})

\* -------------------------------------------------------------- handlers
\* POST /api/queries
CreateQuery(caller, qtype) ==
  /\ Len(queries) < MaxQueries
  /\ LET teamManagers == getUsersByRole("team_manager")
         skipManagers == getUsersByRole("skip_manager")
     IN  /\ queries' = Append(queries,
              [status |-> "draft", queryType |-> qtype,
               content |-> StatementOf(qtype),
               submittedBy |-> caller,
               teamManagerId |-> teamManagers[1],
               skipManagerId |-> skipManagers[1],
               isDryRun |-> FALSE, canRollback |-> TRUE,
               rollbackData |-> NoBackup])
         /\ res' = Response("create", Len(queries) + 1, 201)
  /\ UNCHANGED approvals

\* PATCH /api/queries/:id with body updates
PatchQuery(id, updates) ==
  /\ IF QueryExists(id)
       THEN queries' = updateQuery(queries, id, updates)
       ELSE UNCHANGED queries
  /\ res' = Response("patch", id, 200)
  /\ UNCHANGED approvals

\* A submit handler that auto-approves read-only records.
SubmitQueryAutoApprove(id) ==
  IF QueryExists(id)
    THEN /\ Len(approvals) < MaxApprovals
         /\ IF queries[id].queryType = "select"
              THEN /\ queries' = updateQuery(queries, id, [status |-> "approved"])
                   /\ UNCHANGED approvals
              ELSE /\ queries' = updateQuery(queries, id, [status |-> "submitted"])
                   /\ approvals' = createApproval(approvals, id, "team_manager",
                                                  queries[id].teamManagerId)
         /\ res' = Response("submit", id, 200)
    ELSE /\ res' = Response("submit", id, 500)
         /\ UNCHANGED <<queries, approvals>>

\* POST /api/queries/:id/submit
SubmitQuery(id) ==
  IF QueryExists(id)
    THEN /\ Len(approvals) < MaxApprovals
         /\ LET qs == updateQuery(queries, id, [status |-> "submitted"])
                query == qs[id]
            IN  /\ queries' = qs
                /\ approvals' = createApproval(approvals, id, "team_manager",
                                               query.teamManagerId)
         /\ res' = Response("submit", id, 200)
    ELSE \* updateQuery returns undefined; query.teamManagerId throws
         /\ res' = Response("submit", id, 500)
         /\ UNCHANGED <<queries, approvals>>

\* A dry-run handler that puts the record back to draft.
DryRunQueryResetsStatus(id) ==
  /\ IF ~QueryExists(id)
       THEN /\ res' = Response("dry-run", id, 404)
            /\ UNCHANGED queries
       ELSE /\ queries' = updateQuery(queries, id,
                                      [isDryRun |-> TRUE, status |-> "draft"])
            /\ res' = Response("dry-run", id, 200)
  /\ UNCHANGED approvals

\* POST /api/queries/:id/dry-run
DryRunQuery(id) ==
  /\ IF ~QueryExists(id)
       THEN /\ res' = Response("dry-run", id, 404)
            /\ UNCHANGED queries
       ELSE /\ queries' = updateQuery(queries, id, [isDryRun |-> TRUE])
            /\ res' = Response("dry-run", id, 200)
  /\ UNCHANGED approvals

\* A status check that also lets a half-approved record through.
ExecuteAllowedHalfApproved(query) ==
  query.status \in {"approved", "team_manager_approved"}

\* routes.ts: if (query.status !== 'approved') return 400
ExecuteAllowed(query) == query.status = "approved"

\* POST /api/queries/:id/execute
ExecuteQuery(id) ==
  /\ IF ~QueryExists(id)
       THEN /\ res' = Response("execute", id, 404)
            /\ UNCHANGED queries
       ELSE IF ~ExecuteAllowed(queries[id])
         THEN /\ res' = Response("execute", id, 400)
              /\ UNCHANGED queries
         ELSE /\ queries' = updateQuery(queries, id, [status |-> "executed"])
              /\ res' = Response("execute", id, 200)
  /\ UNCHANGED approvals

\* routes.ts: if (!query.canRollback) return 400
RollbackAllowed(query) == query.canRollback

\* POST /api/queries/:id/rollback
RollbackQuery(id) ==
  /\ IF ~QueryExists(id)
       THEN /\ res' = Response("rollback", id, 404)
            /\ UNCHANGED queries
       ELSE IF ~RollbackAllowed(queries[id])
         THEN /\ res' = Response("rollback", id, 400)
              /\ UNCHANGED queries
         ELSE /\ queries' = updateQuery(queries, id, [status |-> "rolled_back"])
              /\ res' = Response("rollback", id, 200)
  /\ UNCHANGED approvals

\* A status computation that ends the chain at the first approval.
ApproveNewStatusOneTier(approval, query) ==
  CASE approval.approverType = "team_manager" -> "approved"
    [] approval.approverType = "skip_manager" -> "approved"
    [] OTHER                                  -> query.status

\* approve handler: the status the parent gets, by the approval's type
ApproveNewStatus(approval, query) ==
  CASE approval.approverType = "team_manager" -> "team_manager_approved"
    [] approval.approverType = "skip_manager" -> "approved"
    [] OTHER                                  -> query.status

\* POST /api/approvals/:id/approve
ApproveApproval(approvalId, comments) ==
  IF ApprovalExists(approvalId)
    THEN LET as == updateApproval(approvals, approvalId, "approved", comments)
             approval == as[approvalId]
             query == queries[approval.queryId]
             newStatus == ApproveNewStatus(approval, query)
         IN  /\ IF approval.approverType = "team_manager"
                  THEN /\ Len(approvals) < MaxApprovals
                       /\ approvals' = createApproval(as, approval.queryId,
                                          "skip_manager", query.skipManagerId)
                  ELSE approvals' = as
             /\ queries' = updateQuery(queries, approval.queryId,
                                       [status |-> newStatus])
             /\ res' = Response("approve", approvalId, 200)
    ELSE \* updateApproval returns undefined; approval.queryId throws
         /\ res' = Response("approve", approvalId, 500)
         /\ UNCHANGED <<queries, approvals>>

\* A reject handler that answers success when no Approval Record has the id.
RejectApprovalIgnoringMiss(approvalId, comments) ==
  IF ApprovalExists(approvalId)
    THEN LET as == updateApproval(approvals, approvalId, "rejected", comments)
             approval == as[approvalId]
         IN  /\ approvals' = as
             /\ queries' = updateQuery(queries, approval.queryId,
                                       [status |-> "rejected"])
             /\ res' = Response("reject", approvalId, 200)
    ELSE /\ res' = Response("reject", approvalId, 200)
         /\ UNCHANGED <<queries, approvals>>

\* POST /api/approvals/:id/reject
RejectApproval(approvalId, comments) ==
  IF ApprovalExists(approvalId)
    THEN LET as == updateApproval(approvals, approvalId, "rejected", comments)
             approval == as[approvalId]
         IN  /\ approvals' = as
             /\ queries' = updateQuery(queries, approval.queryId,
                                       [status |-> "rejected"])
             /\ res' = Response("reject", approvalId, 200)
    ELSE \* updateApproval returns undefined; approval.queryId throws
         /\ res' = Response("reject", approvalId, 500)
         /\ UNCHANGED <<queries, approvals>>

\* ------------------------------------------------ failing storage steps
\* POST /api/queries/:id/submit when one of its storage calls rejects:
\* storage.updateQuery, or storage.createApproval after the update was
\* written.  The catch answers 500; no transaction spans the two calls.
SubmitQueryFailing(id, failAt) ==
  /\ QueryExists(id)
  /\ failAt \in {"updateQuery", "createApproval"}
  /\ queries' = IF failAt = "updateQuery"
                  THEN queries
                  ELSE updateQuery(queries, id, [status |-> "submitted"])
  /\ res' = Response("submit", id, 500)
  /\ UNCHANGED approvals

\* POST /api/approvals/:id/approve when one of its storage calls rejects:
\* updateApproval, getQuery, createApproval (team tier only) or updateQuery;
\* what the calls before it wrote stays written.
ApproveApprovalFailing(approvalId, comments, failAt) ==
  /\ ApprovalExists(approvalId)
  /\ failAt \in {"updateApproval", "getQuery", "createApproval",
                 "updateQuery"}
  /\ LET as == updateApproval(approvals, approvalId, "approved", comments)
         approval == as[approvalId]
         query == queries[approval.queryId]
     IN  /\ failAt = "createApproval" =>
              approval.approverType = "team_manager"
         /\ approvals' =
              CASE failAt = "updateApproval" -> approvals
                [] failAt \in {"getQuery", "createApproval"} -> as
                [] OTHER ->
                     IF approval.approverType = "team_manager"
                       THEN createApproval(as, approval.queryId,
                                           "skip_manager",
                                           query.skipManagerId)
                       ELSE as
         /\ Len(approvals') <= MaxApprovals
  /\ res' = Response("approve", approvalId, 500)
  /\ UNCHANGED queries

\* POST /api/approvals/:id/reject when updateApproval rejects, or
\* updateQuery after the Approval Record was written.
RejectApprovalFailing(approvalId, comments, failAt) ==
  /\ ApprovalExists(approvalId)
  /\ failAt \in {"updateApproval", "updateQuery"}
  /\ approvals' = IF failAt = "updateApproval"
                    THEN approvals
                    ELSE updateApproval(approvals, approvalId, "rejected",
                                        comments)
  /\ res' = Response("reject", approvalId, 500)
  /\ UNCHANGED queries

\* storage.getQueriesForApproval(approverId, approverType): the Query
\* Records assigned to the approver that wait for the approver's tier.
getQueriesForApproval(approverId, approverType) ==
  {id \in DOMAIN queries :
     \/ /\ approverType = "team_manager"
        /\ queries[id].teamManagerId = approverId
        /\ queries[id].status = "submitted"
     \/ /\ approverType = "skip_manager"
        /\ queries[id].skipManagerId = approverId
        /\ queries[id].status = "team_manager_approved"}

\* GET /api/approvals/pending: Query Records, and none for a caller who is
\* no manager.
PendingApprovals(userId) ==
  IF UserRole(userId) \in {"team_manager", "skip_manager"}
    THEN getQueriesForApproval(userId, UserRole(userId))
    ELSE {}

\* The id of Query Record queryId, used as the id of an Approval Record.
\* Both tables draw their ids from gen_random_uuid(), so it is the id of no
\* Approval Record; the tables being numbered from 1 here, it is a number
\* no Approval Record has.
AsApprovalId(queryId) == 0 - queryId

\* approvals.tsx, the Approve button on an item of the listing:
\* approveMutation with approvalId: selectedQuery.id, that is
\* POST /api/approvals/<id of the Query Record>/approve.
PageApprove(userId, queryId, comments) ==
  /\ queryId \in PendingApprovals(userId)
  /\ ApproveApproval(AsApprovalId(queryId), comments)

\* approvals.tsx, the Reject button: rejectMutation with
\* approvalId: selectedQuery.id.
PageReject(userId, queryId, comments) ==
  /\ queryId \in PendingApprovals(userId)
  /\ RejectApproval(AsApprovalId(queryId), comments)

\* oracle-routes.js: sqlUpper.startsWith('UPDATE') ||
\* sqlUpper.startsWith('DELETE')
StartsWithUpdateOrDelete(content) ==
  content \in {"UPDATE t", "DELETE FROM t", "DELETE t"}

\* oracle-routes.js: query.content.match(/(UPDATE|DELETE\s+FROM)\s+([^\s]+)/i)
TableMatch(content) == content \in {"UPDATE t", "DELETE FROM t"}

\* The execute handler calls createTableBackup for these records.
NeedsBackup(query) ==
  StartsWithUpdateOrDelete(query.content) /\ TableMatch(query.content)

\* oracle.createTableBackup: the value it returns.  The backup table is
\* named after the table and Date.now().  A failed CREATE TABLE is returned
\* as the result object of executeQuery, not thrown.
BackupInfo(backupOk) ==
  IF backupOk
    THEN [isNull |-> FALSE, success |-> TRUE, backupTableName |-> clock]
    ELSE [isNull |-> FALSE, success |-> FALSE, backupTableName |-> 0]

\* POST /oracle/execute-query; backupOk and execOk are the outcomes of the
\* backup statement and of the statement itself on the target.
OracleExecuteQuery(queryId, userId, backupOk, execOk) ==
  /\ IF ~QueryExists(queryId)
       THEN /\ res' = Response("oracle-execute", queryId, 404)
            /\ UNCHANGED queries
       ELSE LET query == queries[queryId] IN
         IF query.status # "approved"
           THEN /\ res' = Response("oracle-execute", queryId, 400)
                /\ UNCHANGED queries
           ELSE IF UserRole(userId) # "skip_manager" /\ query.submittedBy # userId
             THEN /\ res' = Response("oracle-execute", queryId, 403)
                  /\ UNCHANGED queries
             ELSE LET backupInfo == IF NeedsBackup(query)
                                      THEN BackupInfo(backupOk) ELSE NoBackup
                  IN IF execOk
                       THEN /\ queries' = updateQuery(queries, queryId,
                                   [status |-> "executed",
                                    rollbackData |-> backupInfo])
                            /\ res' = Response("oracle-execute", queryId, 200)
                       ELSE /\ queries' = updateQuery(queries, queryId,
                                   [status |-> "failed"])
                            /\ res' = Response("oracle-execute", queryId, 500)
  /\ UNCHANGED approvals

\* POST /oracle/rollback-query; restoreOk is the outcome of
\* oracle.executeRollback on the target.
OracleRollbackQuery(queryId, userId, restoreOk) ==
  /\ IF ~QueryExists(queryId)
       THEN /\ res' = Response("oracle-rollback", queryId, 404)
            /\ UNCHANGED queries
       ELSE LET query == queries[queryId] IN
         IF query.status # "executed" \/ query.rollbackData = NoBackup
           THEN /\ res' = Response("oracle-rollback", queryId, 400)
                /\ UNCHANGED queries
           ELSE IF UserRole(userId) # "skip_manager"
             THEN /\ res' = Response("oracle-rollback", queryId, 403)
                  /\ UNCHANGED queries
             ELSE IF ~TableMatch(query.content)
             THEN /\ res' = Response("oracle-rollback", queryId, 400)
                  /\ UNCHANGED queries
             ELSE IF restoreOk /\ query.rollbackData.success
               THEN /\ queries' = updateQuery(queries, queryId,
                                              [status |-> "rolled_back"])
                    /\ res' = Response("oracle-rollback", queryId, 200)
               ELSE /\ res' = Response("oracle-rollback", queryId, 500)
                    /\ UNCHANGED queries
  /\ UNCHANGED approvals

\* ------------------------------------------------- oracle-integration.js
\* The pool cache and the pools made, as one value.
PoolState(ps, cs) == [pools |-> ps, created |-> cs]

\* createConnectionPool(serverId), when oracledb.createPool resolves: the
\* new pool is entered in the Map pools.
createConnectionPool(ps, serverId) ==
  LET pool == Len(ps.created) + 1
  IN  PoolState([t \in DOMAIN ps.pools \cup {serverId} |->
                   IF t = serverId THEN pool ELSE ps.pools[t]],
                Append(ps.created, serverId))

\* A getConnection that makes a pool on every call.
getConnectionAlwaysCreates(ps, serverId, outcome) ==
  IF outcome = "no_pool"
    THEN ps
    ELSE createConnectionPool(ps, serverId)

\* getConnection(serverId), run to its end: the pool of the Map is used,
\* and one is created when the Map has none.
getConnection(ps, serverId, outcome) ==
  IF serverId \in DOMAIN ps.pools \/ outcome = "no_pool"
    THEN ps
    ELSE createConnectionPool(ps, serverId)

\* oracledb.createPool is called, and can reject, only when the Map has no
\* pool for the target.
CanEnd(ps, serverId, outcome) ==
  outcome = "no_pool" => serverId \notin DOMAIN ps.pools

\* What got records of a getConnection call on pool state ps (after it).
Got(ps, serverId, outcome) ==
  [serverId |-> serverId,
   pool |-> IF outcome = "no_pool" THEN 0 ELSE ps.pools[serverId]]

\* An executeRollback whose catch block leaves a failed commit as it is.
executeRollbackTxnLeftOpen(failedAt) ==
  CASE failedAt = "none"                        -> "commit"
    [] failedAt \in {"no_pool", "no_connection"} -> "none"
    [] failedAt = "commit"                       -> "open"
    [] OTHER                                     -> "rollback"

\* How the transaction of executeRollback ends: committed, rolled back by
\* the catch block, or never begun when no connection was obtained.  A
\* connection.rollback() that throws is logged, and the connection is
\* closed without a commit.
executeRollbackTxn(failedAt) ==
  CASE failedAt = "none"                        -> "commit"
    [] failedAt \in {"no_pool", "no_connection"} -> "none"
    [] OTHER                                     -> "rollback"

\* Whether POST /oracle/execute-query gets past its checks to the backup
\* and the statement.
ReachesExecution(queryId, userId) ==
  /\ QueryExists(queryId)
  /\ queries[queryId].status = "approved"
  /\ ~( UserRole(userId) # "skip_manager"
        /\ queries[queryId].submittedBy # userId )

\* POST /oracle/execute-query on the target.  createTableBackup copies
\* BACKUP_SCHEMA.t into a table named after the clock; the statement runs
\* as written, on the t of the session schema, and leaves it with rows
\* (the same rows when it matches none or nothing of it is committed).
\* Both go through executeQuery, which closes its connection in finally.
ExecuteOnTarget(queryId, userId, backup, exec, rows) ==
  LET reaches  == ReachesExecution(queryId, userId)
      backs    == reaches /\ NeedsBackup(queries[queryId])
      ps0      == PoolState(pools, created)
      ps1      == IF backs THEN getConnection(ps0, QueryServer, backup)
                           ELSE ps0
      ps2      == IF reaches THEN getConnection(ps1, QueryServer, exec)
                             ELSE ps1
      backupOk == /\ backup = "ok"
                  /\ BackupSchema \in DOMAIN tables
                  /\ clock \notin DOMAIN backups
      execOk   == exec = "ok"
  IN  /\ IF backs THEN CanEnd(ps0, QueryServer, backup) ELSE backup = "ok"
      /\ IF reaches THEN CanEnd(ps1, QueryServer, exec) ELSE exec = "ok"
      /\ OracleExecuteQuery(queryId, userId, backupOk, execOk)
      /\ pools' = ps2.pools
      /\ created' = ps2.created
      /\ got' = IF reaches THEN Got(ps2, QueryServer, exec) ELSE got
      /\ backups' = IF backs /\ backupOk
                      THEN [n \in DOMAIN backups \cup {clock} |->
                              IF n = clock THEN tables[BackupSchema]
                                           ELSE backups[n]]
                      ELSE backups
      /\ tables' = IF reaches /\ execOk
                        /\ queries[queryId].content # "SELECT FROM t"
                     THEN [tables EXCEPT ![SessionSchema] = rows]
                     ELSE tables
      /\ preExecute' = IF reaches THEN tables[SessionSchema] ELSE preExecute
      /\ UNCHANGED <<open, clock, restore, call>>

\* Whether POST /oracle/rollback-query gets past its checks to
\* executeRollback.
ReachesRestore(queryId, userId) ==
  /\ QueryExists(queryId)
  /\ queries[queryId].status = "executed"
  /\ queries[queryId].rollbackData # NoBackup
  /\ UserRole(userId) = "skip_manager"
  /\ TableMatch(queries[queryId].content)

\* The step at which executeRollback(serverId, t, backupTable,
\* 'BACKUP_SCHEMA') fails: the one the input names, or the first
\* statement whose table does not exist.
FailedAt(backupTable, failure) ==
  CASE failure \in {"no_pool", "no_connection"}                  -> failure
    [] failure = "truncate" \/ BackupSchema \notin DOMAIN tables -> "truncate"
    [] failure = "insert" \/ backupTable \notin DOMAIN backups   -> "insert"
    [] OTHER                                                     -> failure

\* POST /oracle/rollback-query on the target.  executeRollback truncates
\* BACKUP_SCHEMA.t, refills it from the backup table and commits; its
\* catch block rolls back, its finally block closes the connection.  A
\* failure after the TRUNCATE leaves BACKUP_SCHEMA.t as it was or empty.
RollbackOnTarget(queryId, userId, failure, truncated) ==
  LET reaches  == ReachesRestore(queryId, userId)
      ps0      == PoolState(pools, created)
      outcome  == IF failure \in {"no_pool", "no_connection"}
                    THEN failure ELSE "ok"
      ps1      == IF reaches THEN getConnection(ps0, QueryServer, outcome)
                             ELSE ps0
      backupTable == IF reaches
                       THEN queries[queryId].rollbackData.backupTableName
                       ELSE 0
      failedAt == FailedAt(backupTable, failure)
  IN  /\ IF reaches THEN CanEnd(ps0, QueryServer, outcome)
                    ELSE failure = "none"
      /\ truncated => reaches /\ failedAt \in {"insert", "commit"}
      /\ OracleRollbackQuery(queryId, userId, failedAt = "none")
      /\ pools' = ps1.pools
      /\ created' = ps1.created
      /\ got' = IF reaches THEN Got(ps1, QueryServer, outcome) ELSE got
      /\ restore' = IF reaches
                      THEN [failedAt |-> failedAt,
                            txn |-> executeRollbackTxn(failedAt)]
                      ELSE restore
      /\ tables' = IF ~reaches THEN tables
                   ELSE IF failedAt = "none"
                     THEN [tables EXCEPT ![BackupSchema] = backups[backupTable]]
                   ELSE IF truncated
                     THEN [tables EXCEPT ![BackupSchema] = EmptyTable]
                   ELSE tables
      /\ UNCHANGED <<open, backups, clock, preExecute, call>>

\* A request that obtains a connection with oracle.getConnection and runs
\* its statements on it, on top of pool state ps.  Where the code closes
\* in finally the connection never stays open; where the close follows the
\* statements in the try block, a statement that rejects skips it.
OpenAfter(n, outcome, closesInFinally) ==
  IF outcome = "error" /\ ~closesInFinally THEN n + 1 ELSE n

\* GET /oracle/test-connection/:serverId: getConnection, SELECT 1, close.
TestConnection(serverId, outcome) ==
  LET ps0 == PoolState(pools, created)
      ps1 == getConnection(ps0, serverId, outcome)
  IN  /\ CanEnd(ps0, serverId, outcome)
      /\ OpenAfter(open[serverId], outcome, FALSE) <= MaxOpen
      /\ pools' = ps1.pools
      /\ created' = ps1.created
      /\ got' = Got(ps1, serverId, outcome)
      /\ open' = [open EXCEPT ![serverId] = OpenAfter(@, outcome, FALSE)]
      /\ res' = Response("test-connection", 0,
                         IF outcome = "ok" THEN 200 ELSE 500)
      /\ UNCHANGED <<queries, approvals, tables, backups, clock,
                     restore, preExecute, call>>

\* GET /oracle/server-status/:serverId: getConnection, three SELECTs, close.
ServerStatus(serverId, outcome) ==
  LET ps0 == PoolState(pools, created)
      ps1 == getConnection(ps0, serverId, outcome)
  IN  /\ CanEnd(ps0, serverId, outcome)
      /\ OpenAfter(open[serverId], outcome, FALSE) <= MaxOpen
      /\ pools' = ps1.pools
      /\ created' = ps1.created
      /\ got' = Got(ps1, serverId, outcome)
      /\ open' = [open EXCEPT ![serverId] = OpenAfter(@, outcome, FALSE)]
      /\ res' = Response("server-status", 0,
                         IF outcome = "ok" THEN 200 ELSE 500)
      /\ UNCHANGED <<queries, approvals, tables, backups, clock,
                     restore, preExecute, call>>

\* GET /oracle/test-all-connections: testAllConnections does, for every
\* key of serverConfigurations, getConnection, SELECT 1, close, each in its
\* own try block; outcomes gives the outcome per target.
TestAllConnections(outcomes) ==
  LET ps0 == PoolState(pools, created)
      ps1 == getConnection(ps0, "tpaoeldbsd001", outcomes["tpaoeldbsd001"])
      ps2 == getConnection(ps1, "tpaoeldbsr001", outcomes["tpaoeldbsr001"])
  IN  /\ \A t \in Targets :
           /\ CanEnd(ps0, t, outcomes[t])
           /\ OpenAfter(open[t], outcomes[t], FALSE) <= MaxOpen
      /\ pools' = ps2.pools
      /\ created' = ps2.created
      /\ got' = Got(ps2, "tpaoeldbsr001", outcomes["tpaoeldbsr001"])
      /\ open' = [t \in Targets |-> OpenAfter(open[t], outcomes[t], FALSE)]
      /\ res' = Response("test-all-connections", 0, 200)
      /\ UNCHANGED <<queries, approvals, tables, backups, clock,
                     restore, preExecute, call>>

\* ---------------------------------------------------------------- dry run
\* sqlText.trim().toUpperCase().match(/^(UPDATE|DELETE|INSERT)/)
IsDml(content) ==
  content \in {"INSERT INTO t", "UPDATE t", "DELETE FROM t", "DELETE t"}

\* convertToCountQuery(sqlText): the SELECT COUNT(*) over the statement's
\* table, from UPDATE <table> and from DELETE FROM <table>; null otherwise.
convertToCountQuery(content) ==
  IF content \in {"UPDATE t", "DELETE FROM t"}
    THEN "SELECT COUNT FROM t"
    ELSE "null"

\* What getConnection met, for a dry run that failed at step failure.
DryRunOutcome(failure) ==
  CASE failure = "none" -> "ok"
    [] failure \in {"no_pool", "no_connection"} -> failure
    [] OTHER -> "error"

\* An EXPLAIN PLAN that runs the statement it is given.
explainPlanRunsStatement(tbls, content) ==
  IF IsDml(content)
    THEN [tbls EXCEPT ![SessionSchema] = EmptyTable]
    ELSE tbls

\* The tables of the target after EXPLAIN PLAN ... FOR <statement>, the
\* SELECT of the plan and the count query: the statement is planned, never
\* run, and the other two read.
explainPlan(tbls, content) == tbls

\* PLAN_TABLE after the statements of a dry run that failed at step failure
\* (or did not): the leading DELETE of statementId, the rows EXPLAIN PLAN
\* writes under statementId, and the DELETE of the finally block when the
\* function has one (cleanup) and it succeeds.
PlanRows(plan, statementId, failure, cleanup) ==
  LET cleared == plan \ {statementId}
      planned == IF failure \in {"no_pool", "no_connection", "explain"}
                   THEN cleared
                   ELSE cleared \cup {statementId}
  IN  IF failure \in {"no_pool", "no_connection"}
        THEN plan
        ELSE IF cleanup THEN planned \ {statementId} ELSE planned

\* The result generateExecutionPlan returns: estimatedRowsAffected is 0
\* unless a count query was built and run; on failure the result carries
\* the error and no estimate.
PlanResult(content, failure) ==
  IF failure = "none"
    THEN [success |-> TRUE, content |-> content,
          estimate |-> IF IsDml(content)
                          /\ convertToCountQuery(content) # "null"
                         THEN "COUNT" ELSE "0"]
    ELSE [success |-> FALSE, content |-> content, estimate |-> "absent"]

\* POST /oracle/dry-run with generateExecutionPlan: getConnection, DELETE
\* of the plan rows of 'DRYRUN_' + Date.now(), EXPLAIN PLAN under that id,
\* SELECT of the plan, the count query for UPDATE/DELETE/INSERT, close in
\* finally.  Nothing is committed and nothing deleted afterwards: kept
\* says whether the session's work outlives connection.close().  Every
\* failure is caught and returned as a result, with status 200.
OracleDryRun(serverId, content, failure, kept) ==
  LET ps0 == PoolState(pools, created)
      outcome == DryRunOutcome(failure)
      ps1 == getConnection(ps0, serverId, outcome)
  IN  /\ CanEnd(ps0, serverId, outcome)
      /\ failure = "count" =>
           IsDml(content) /\ convertToCountQuery(content) # "null"
      /\ pools' = ps1.pools
      /\ created' = ps1.created
      /\ got' = Got(ps1, serverId, outcome)
      /\ open' = [open EXCEPT ![serverId] = OpenAfter(@, outcome, TRUE)]
      /\ tables' = IF failure \in {"no_pool", "no_connection", "explain"}
                     THEN tables
                     ELSE explainPlan(tables, content)
      /\ planTable' = IF kept
                        THEN PlanRows(planTable, clock, failure, FALSE)
                        ELSE planTable
      /\ dry' = PlanResult(content, failure)
      /\ res' = Response("oracle-dry-run", 0, 200)
      /\ UNCHANGED <<queries, approvals, backups, clock, restore,
                     preExecute, call, closed, connections, catalog, disc>>

\* The result OracleService.executeDryRun returns: CARDINALITY of the
\* first plan row or 'Unknown'; 'Error' when anything failed.
ServicePlanResult(content, failure, cardinality) ==
  IF failure = "none"
    THEN [success |-> TRUE, content |-> content,
          estimate |-> IF cardinality THEN "CARDINALITY" ELSE "Unknown"]
    ELSE [success |-> FALSE, content |-> content, estimate |-> "Error"]

\* OracleService.executeDryRun: the pool of connections (none: 'No
\* connection pool found'), DELETE of the rows of 'QMS_DRY_RUN', EXPLAIN
\* PLAN under that id, SELECT of the plan; in finally, with a connection,
\* the DELETE again and then close, which a failed DELETE skips.
ServiceExecuteDryRun(serverId, content, failure, cardinality, cleanupOk, kept) ==
  LET connected == failure \notin {"no_pool", "no_connection"}
  IN  /\ failure # "count"
      /\ failure = "no_pool" <=> serverId \notin DOMAIN connections
      /\ connected /\ ~cleanupOk => open[serverId] < MaxOpen
      /\ open' = IF connected /\ ~cleanupOk
                   THEN [open EXCEPT ![serverId] = @ + 1]
                   ELSE open
      /\ tables' = IF failure \in {"no_pool", "no_connection", "explain"}
                     THEN tables
                     ELSE explainPlan(tables, content)
      /\ planTable' = IF kept
                        THEN PlanRows(planTable, QmsDryRun, failure,
                                      cleanupOk)
                        ELSE planTable
      /\ dry' = ServicePlanResult(content, failure, cardinality)
      /\ res' = Response("service-dry-run", 0, 0)
      /\ UNCHANGED <<queries, approvals, pools, created, got, backups,
                     clock, restore, preExecute, call, closed, connections,
                     catalog, disc>>

\* ------------------------------------------------- closing, OracleService
\* A loop over the Map that the first failing pool.close() ends.
ClosedByUntilFailure(m, closeOk) ==
  IF \A t \in DOMAIN m : closeOk[t] THEN {m[t] : t \in DOMAIN m} ELSE {}

\* The pools of Map m whose pool.close() succeeds (closeOk, per target).
ClosedBy(m, closeOk) == {m[t] : t \in {x \in DOMAIN m : closeOk[x]}}

\* shutdown(), on SIGINT and SIGTERM: pool.close(0) on every entry of the
\* Map, each in its own try/catch, then pools.clear().
Shutdown(closeOk) ==
  /\ closed' = closed \cup ClosedBy(pools, closeOk)
  /\ pools' = <<>>
  /\ res' = Response("shutdown", 0, 0)
  /\ UNCHANGED <<queries, approvals, created, open, got, tables, backups,
                 clock, restore, preExecute, call, connections, planTable,
                 dry, catalog, disc>>

\* OracleService.closeAllConnections: pool.close(10) on every entry of
\* connections, each in its own try/catch, then connections.clear().
ServiceCloseAll(closeOk) ==
  /\ closed' = closed \cup ClosedBy(connections, closeOk)
  /\ connections' = <<>>
  /\ res' = Response("service-close-all", 0, 0)
  /\ UNCHANGED <<queries, approvals, pools, created, open, got, tables,
                 backups, clock, restore, preExecute, call, planTable, dry,
                 catalog, disc>>

\* A createConnectionPool that records a pool although createPool failed.
ServiceCreatePoolCachesFailure(serverId, ok) ==
  /\ Len(created) < MaxPools
  /\ created' = Append(created, serverId)
  /\ connections' = [t \in DOMAIN connections \cup {serverId} |->
                       IF t = serverId THEN Len(created) + 1
                       ELSE connections[t]]
  /\ res' = Response("service-create-pool", 0, IF ok THEN 200 ELSE 500)
  /\ UNCHANGED <<queries, approvals, pools, open, got, tables, backups,
                 clock, restore, preExecute, call, closed, planTable, dry,
                 catalog, disc>>

\* OracleService.createConnectionPool(serverId, config): oracledb.createPool
\* and, when it resolves, connections.set(serverId, pool), whatever the Map
\* held; when it rejects the error is logged and thrown again (code 500
\* here, 200 for a return).
ServiceCreatePool(serverId, ok) ==
  /\ Len(created) < MaxPools
  /\ created' = IF ok THEN Append(created, serverId) ELSE created
  /\ connections' = IF ok
                      THEN [t \in DOMAIN connections \cup {serverId} |->
                              IF t = serverId THEN Len(created) + 1
                              ELSE connections[t]]
                      ELSE connections
  /\ res' = Response("service-create-pool", 0, IF ok THEN 200 ELSE 500)
  /\ UNCHANGED <<queries, approvals, pools, open, got, tables, backups,
                 clock, restore, preExecute, call, closed, planTable, dry,
                 catalog, disc>>

\* OracleService.testConnection(config): oracledb.getConnection on the
\* configuration, SELECT 1 FROM DUAL, close in finally; true or false is
\* returned (code 200 or 500 here) and connections is not used.
ServiceTestConnection(serverId, ok) ==
  /\ res' = Response("service-test-connection", 0, IF ok THEN 200 ELSE 500)
  /\ UNCHANGED <<queries, approvals, pools, created, open, got, tables,
                 backups, clock, restore, preExecute, call, adminVars>>

\* --------------------------------------------------- metadata discovery
\* discoverDatabaseMetadata(serverId), after getConnection: the tables
\* query, then one columns query per table inside the same try block; any
\* failure is caught and gives {success: false}, with no tables.
discoverDatabaseMetadata(failure) ==
  IF failure = "none"
    THEN [success |-> TRUE, tables |-> DiscoveredTables]
    ELSE [success |-> FALSE, tables |-> <<>>]

\* The row of database_tables that db.insert(...).values(tableData) writes:
\* the id given by the route, `${serverId}_${schemaName}_${tableName}`,
\* server_id and table_name.  The table has no column for the key
\* schemaName of tableData, and its column schema stays NULL.
TableRow(serverId, table) ==
  [id |-> <<serverId, table.schemaName, table.tableName>>,
   serverId |-> serverId, tableName |-> table.tableName, schema |-> "NULL"]

\* row[name] as JavaScript reads it: undefined for a property the row has
\* not.
Property(row, name) ==
  IF name \in DOMAIN row THEN row[name] ELSE "undefined"

\* storage.getTablesForServer(serverId)
getTablesForServer(serverId) ==
  {i \in DOMAIN catalog : catalog[i].serverId = serverId}

\* existingTables.find(t => t.schemaName === table.schemaName &&
\*                          t.tableName === table.tableName) found a row.
FindsExisting(serverId, table) ==
  \E i \in getTablesForServer(serverId) :
    /\ Property(catalog[i], "schemaName") = table.schemaName
    /\ Property(catalog[i], "tableName") = table.tableName

\* An insert into a table without primary key.
createDatabaseTableNoKey(rows, row) == Append(rows, row)

\* storage.createDatabaseTable(row): the INSERT, which the primary key id
\* of database_tables rejects when a row has that id; the route catches
\* the error per table and goes on.
createDatabaseTable(rows, row) ==
  IF \E i \in DOMAIN rows : rows[i].id = row.id
    THEN rows
    ELSE Append(rows, row)

\* POST /oracle/discover-metadata/:serverId, up to the result of
\* discoverDatabaseMetadata, which obtains a connection and closes it in
\* finally: 500 when it failed, else the loop over its tables begins.
DiscoverBegin(c, serverId, failure) ==
  LET ps0 == PoolState(pools, created)
      outcome == DryRunOutcome(failure)
      ps1 == getConnection(ps0, serverId, outcome)
      metadata == discoverDatabaseMetadata(failure)
  IN  /\ disc[c].pc = "idle"
      /\ failure \in DiscoveryFailures
      /\ CanEnd(ps0, serverId, outcome)
      /\ pools' = ps1.pools
      /\ created' = ps1.created
      /\ got' = Got(ps1, serverId, outcome)
      /\ open' = [open EXCEPT ![serverId] = OpenAfter(@, outcome, TRUE)]
      /\ IF metadata.success
           THEN /\ disc' = [disc EXCEPT ![c] =
                              [pc |-> "check", serverId |-> serverId,
                               todo |-> metadata.tables,
                               existing |-> FALSE]]
                /\ res' = Response("discover-begin", 0, 0)
           ELSE /\ disc' = disc
                /\ res' = Response("discover-metadata", 0, 500)
      /\ UNCHANGED <<queries, approvals, tables, backups, clock, restore,
                     preExecute, call, closed, connections, planTable, dry,
                     catalog>>

\* The loop, per table: await storage.getTablesForServer and the find.
DiscoverCheck(c) ==
  /\ disc[c].pc = "check"
  /\ disc[c].todo # <<>>
  /\ disc' = [disc EXCEPT ![c].pc = "create",
                          ![c].existing =
                            FindsExisting(disc[c].serverId,
                                          Head(disc[c].todo))]
  /\ res' = Response("discover-check", 0, 0)
  /\ UNCHANGED <<queries, approvals, pools, created, open, got, tables,
                 backups, clock, restore, preExecute, call, closed,
                 connections, planTable, dry, catalog>>

\* The loop, per table: await storage.createDatabaseTable(tableData) when
\* the find gave nothing; then the next table.
DiscoverCreate(c) ==
  /\ disc[c].pc = "create"
  /\ catalog' = IF disc[c].existing
                  THEN catalog
                  ELSE createDatabaseTable(
                         catalog,
                         TableRow(disc[c].serverId, Head(disc[c].todo)))
  /\ disc' = [disc EXCEPT ![c].pc = "check",
                          ![c].todo = Tail(disc[c].todo)]
  /\ res' = Response("discover-create", 0, 0)
  /\ UNCHANGED <<queries, approvals, pools, created, open, got, tables,
                 backups, clock, restore, preExecute, call, closed,
                 connections, planTable, dry>>

\* After the last table: res.json({success: true, ...}).
DiscoverEnd(c) ==
  /\ disc[c].pc = "check"
  /\ disc[c].todo = <<>>
  /\ disc' = [disc EXCEPT ![c] = IdleDiscovery]
  /\ res' = Response("discover-metadata", 0, 200)
  /\ UNCHANGED <<queries, approvals, pools, created, open, got, tables,
                 backups, clock, restore, preExecute, call, closed,
                 connections, planTable, dry, catalog>>

\* ------------------------------------------ execute-query, step by step
\* POST /oracle/execute-query begins: storage.getQuery and the checks of
\* existence, status and permission, all on the record as read now; the
\* request then goes on to the backup or straight to the statement.
ExecuteBegin(c, queryId, userId) ==
  /\ executing[c].pc = "idle"
  /\ IF ~QueryExists(queryId)
       THEN /\ res' = Response("oracle-execute", queryId, 404)
            /\ executing' = executing
       ELSE IF queries[queryId].status # "approved"
         THEN /\ res' = Response("oracle-execute", queryId, 400)
              /\ executing' = executing
         ELSE IF ~ReachesExecution(queryId, userId)
           THEN /\ res' = Response("oracle-execute", queryId, 403)
                /\ executing' = executing
           ELSE /\ res' = Response("execute-begin", queryId, 0)
                /\ executing' = [executing EXCEPT ![c] =
                     [pc |-> IF NeedsBackup(queries[queryId])
                               THEN "backup" ELSE "run",
                      queryId |-> queryId,
                      content |-> queries[queryId].content,
                      backupInfo |-> NoBackup, backupTableName |-> 0,
                      success |-> FALSE]]
  /\ UNCHANGED <<queries, approvals, pools, created, open, got, tables,
                 backups, clock, restore, preExecute, call, adminVars, runs>>

\* await oracle.createTableBackup(...): the name is made from the table
\* and Date.now(), CREATE TABLE <name> AS SELECT runs through executeQuery
\* and fails when the name is taken or BACKUP_SCHEMA has no table t.
ExecuteBackup(c, outcome) ==
  LET ps0 == PoolState(pools, created)
      ps1 == getConnection(ps0, QueryServer, outcome)
      backupOk == /\ outcome = "ok"
                  /\ BackupSchema \in DOMAIN tables
                  /\ clock \notin DOMAIN backups
  IN  /\ executing[c].pc = "backup"
      /\ CanEnd(ps0, QueryServer, outcome)
      /\ pools' = ps1.pools
      /\ created' = ps1.created
      /\ got' = Got(ps1, QueryServer, outcome)
      /\ backups' = IF backupOk
                      THEN [n \in DOMAIN backups \cup {clock} |->
                              IF n = clock THEN tables[BackupSchema]
                                           ELSE backups[n]]
                      ELSE backups
      /\ executing' = [executing EXCEPT ![c].pc = "run",
                              ![c].backupInfo = BackupInfo(backupOk),
                              ![c].backupTableName = clock]
      /\ res' = Response("execute-backup", executing[c].queryId, 0)
      /\ UNCHANGED <<queries, approvals, open, tables, clock, restore,
                     preExecute, call, adminVars, runs>>

\* await oracle.executeQuery(query.serverId, query.content, ...): the
\* statement runs on the target, or fails.
ExecuteRun(c, outcome, rows) ==
  LET ps0 == PoolState(pools, created)
      ps1 == getConnection(ps0, QueryServer, outcome)
      id  == executing[c].queryId
  IN  /\ executing[c].pc = "run"
      /\ CanEnd(ps0, QueryServer, outcome)
      /\ pools' = ps1.pools
      /\ created' = ps1.created
      /\ got' = Got(ps1, QueryServer, outcome)
      /\ tables' = IF /\ outcome = "ok"
                      /\ executing[c].content # "SELECT FROM t"
                     THEN [tables EXCEPT ![SessionSchema] = rows]
                     ELSE tables
      /\ preExecute' = tables[SessionSchema]
      /\ runs' = IF outcome = "ok" THEN [runs EXCEPT ![id] = @ + 1]
                                   ELSE runs
      /\ executing' = [executing EXCEPT ![c].pc = "update",
                              ![c].success = (outcome = "ok")]
      /\ res' = Response("execute-run", id, 0)
      /\ UNCHANGED <<queries, approvals, open, backups, clock, restore,
                     call, adminVars>>

\* await storage.updateQuery(queryId, ...) and the response: executed with
\* the backup result as rollbackData, or failed.
ExecuteEnd(c) ==
  LET id == executing[c].queryId
  IN  /\ executing[c].pc = "update"
      /\ IF executing[c].success
           THEN /\ queries' = updateQuery(queries, id,
                       [status |-> "executed",
                        rollbackData |-> executing[c].backupInfo])
                /\ res' = Response("oracle-execute", id, 200)
           ELSE /\ queries' = updateQuery(queries, id, [status |-> "failed"])
                /\ res' = Response("oracle-execute", id, 500)
      /\ executing' = [executing EXCEPT ![c] = IdleExecution]
      /\ UNCHANGED <<approvals, pools, created, open, got, tables, backups,
                     clock, restore, preExecute, call, adminVars, runs>>

\* Time passes: Date.now() gives a later reading.
Tick ==
  /\ clock < MaxClock
  /\ clock' = clock + 1
  /\ UNCHANGED <<queries, approvals, res, pools, created, open, got, tables,
                 backups, restore, preExecute, call>>

\* ------------------------------------------- getConnection, step by step
\* getConnection(serverId) begins: pools.get(serverId).  With a pool the
\* request goes on to pool.getConnection(); without one it calls
\* createConnectionPool and waits for oracledb.createPool.
GetConnectionBegin(c, serverId) ==
  /\ call[c].pc = "idle"
  /\ call' = [call EXCEPT ![c] =
       IF serverId \in DOMAIN pools
         THEN [pc |-> "connecting", serverId |-> serverId,
               pool |-> pools[serverId]]
         ELSE [pc |-> "creating", serverId |-> serverId, pool |-> 0]]
  /\ UNCHANGED <<queries, approvals, res, pools, created, open, got, tables,
                 backups, clock, restore, preExecute>>

\* oracledb.createPool settles: pools.set(serverId, pool), or the error is
\* thrown to the caller of getConnection.
CreatePoolEnd(c, ok) ==
  /\ call[c].pc = "creating"
  /\ LET ps == IF ok
                 THEN createConnectionPool(PoolState(pools, created),
                                           call[c].serverId)
                 ELSE PoolState(pools, created)
     IN  /\ pools' = ps.pools
         /\ created' = ps.created
         /\ call' = [call EXCEPT ![c] =
              IF ok THEN [@ EXCEPT !.pc = "connecting",
                                   !.pool = Len(ps.created)]
                    ELSE [@ EXCEPT !.pc = "idle"]]
  /\ UNCHANGED <<queries, approvals, res, open, got, tables, backups, clock,
                 restore, preExecute>>

\* pool.getConnection() settles: the caller holds a connection, or the
\* error is thrown to it.
GetConnectionEnd(c, ok) ==
  /\ call[c].pc = "connecting"
  /\ ok => open[call[c].serverId] < MaxOpen
  /\ call' = [call EXCEPT ![c].pc = IF ok THEN "holding" ELSE "idle"]
  /\ open' = IF ok THEN [open EXCEPT ![call[c].serverId] = @ + 1] ELSE open
  /\ got' = [serverId |-> call[c].serverId, pool |-> call[c].pool]
  /\ UNCHANGED <<queries, approvals, res, pools, created, tables, backups,
                 clock, restore, preExecute>>

\* connection.close()
CloseConnection(c) ==
  /\ call[c].pc = "holding"
  /\ call' = [call EXCEPT ![c].pc = "idle"]
  /\ open' = [open EXCEPT ![call[c].serverId] = @ - 1]
  /\ UNCHANGED <<queries, approvals, res, pools, created, got, tables,
                 backups, clock, restore, preExecute>>

\* ------------------------------------------------------ specifications
\* The bodies a PATCH request carries here: one column each.
PatchBodies ==
  {[status |-> s] : s \in queryStatusEnum} \cup
  {[canRollback |-> b] : b \in BOOLEAN}

Next ==
  \/ \E caller \in Submitters, qtype \in queryTypeEnum :
       CreateQuery(caller, qtype) /\ UNCHANGED oracleVars
  \/ \E id \in QueryIdInputs, updates \in PatchBodies :
       PatchQuery(id, updates) /\ UNCHANGED oracleVars
  \/ \E id \in QueryIdInputs : SubmitQuery(id) /\ UNCHANGED oracleVars
  \/ \E id \in QueryIdInputs : DryRunQuery(id) /\ UNCHANGED oracleVars
  \/ \E id \in QueryIdInputs : ExecuteQuery(id) /\ UNCHANGED oracleVars
  \/ \E id \in QueryIdInputs : RollbackQuery(id) /\ UNCHANGED oracleVars
  \/ \E id \in ApprovalIdInputs, c \in Comments :
       ApproveApproval(id, c) /\ UNCHANGED oracleVars
  \/ \E id \in ApprovalIdInputs, c \in Comments :
       RejectApproval(id, c) /\ UNCHANGED oracleVars
  \/ \E id \in QueryIdInputs, u \in Users, b, e \in BOOLEAN :
       OracleExecuteQuery(id, u, b, e) /\ UNCHANGED oracleVars
  \/ \E id \in QueryIdInputs, u \in Users, r \in BOOLEAN :
       OracleRollbackQuery(id, u, r) /\ UNCHANGED oracleVars

Spec == Init /\ [][Next]_vars

\* The record store once a record has been created, submitted and approved
\* by its team and skip approvers: one approved Query Record with its two
\* approved Approval Records.
ApprovedRecord(content, submitter) ==
  /\ queries = << [status |-> "approved", queryType |-> TypeOf(content),
                   content |-> content, submittedBy |-> submitter,
                   teamManagerId |-> "tm1", skipManagerId |-> "sm1",
                   isDryRun |-> FALSE, canRollback |-> TRUE,
                   rollbackData |-> NoBackup] >>
  /\ approvals = << [queryId |-> 1, approverType |-> "team_manager",
                     approverId |-> "tm1", status |-> "approved",
                     comments |-> "c1"],
                    [queryId |-> 1, approverType |-> "skip_manager",
                     approverId |-> "sm1", status |-> "approved",
                     comments |-> "c1"] >>
  /\ res = Response("approve", 2, 200)

OracleSpecInit ==
  /\ \E content \in Statements : ApprovedRecord(content, "u1")
  /\ \E backupSchemaTable \in {{}, {"rows1"}} :
       OracleInit(backupSchemaTable)

OracleNext ==
  \/ /\ \E id \in QueryIdInputs, u \in Users, b, e \in Outcomes,
           rows \in Contents : ExecuteOnTarget(id, u, b, e, rows)
     /\ UNCHANGED <<adminVars, execVars>>
  \/ /\ \E id \in QueryIdInputs, u \in Users, f \in RestoreFailures,
           truncated \in BOOLEAN : RollbackOnTarget(id, u, f, truncated)
     /\ UNCHANGED <<adminVars, execVars>>
  \/ /\ \E t \in Targets, o \in Outcomes : TestConnection(t, o)
     /\ UNCHANGED <<adminVars, execVars>>
  \/ /\ \E t \in Targets, o \in Outcomes : ServerStatus(t, o)
     /\ UNCHANGED <<adminVars, execVars>>
  \/ /\ \E os \in [Targets -> Outcomes] : TestAllConnections(os)
     /\ UNCHANGED <<adminVars, execVars>>
  \/ /\ Tick
     /\ UNCHANGED <<adminVars, execVars>>

OracleSpec == OracleSpecInit /\ [][OracleNext]_vars

\* Dry runs on one target, of the integration module and of
\* OracleService, whose pool createConnectionPool makes.
DryRunNext ==
  \/ /\ \E content \in Statements, f \in DryRunFailures,
           kept \in BOOLEAN : OracleDryRun(QueryServer, content, f, kept)
     /\ Len(created') <= MaxPools
     /\ UNCHANGED execVars
  \/ /\ \E ok \in BOOLEAN : ServiceCreatePool(QueryServer, ok)
     /\ UNCHANGED execVars
  \/ /\ \E content \in Statements, f \in DryRunFailures,
           cardinality, cleanupOk, kept \in BOOLEAN :
           ServiceExecuteDryRun(QueryServer, content, f, cardinality,
                                cleanupOk, kept)
     /\ UNCHANGED execVars

DryRunSpec == Init /\ [][DryRunNext]_vars

\* The pools of the targets, without a Query Record: connection tests,
\* pool creation and closing, of the integration module and of
\* OracleService.
LifecycleNext ==
  \/ /\ \E t \in Targets, o \in Outcomes : TestConnection(t, o)
     /\ Len(created') <= MaxPools
     /\ UNCHANGED <<adminVars, execVars>>
  \/ /\ \E closeOk \in [Targets -> BOOLEAN] : Shutdown(closeOk)
     /\ UNCHANGED execVars
  \/ /\ \E t \in Targets, ok \in BOOLEAN : ServiceCreatePool(t, ok)
     /\ UNCHANGED execVars
  \/ /\ \E t \in Targets, ok \in BOOLEAN : ServiceTestConnection(t, ok)
     /\ UNCHANGED execVars
  \/ /\ \E closeOk \in [Targets -> BOOLEAN] : ServiceCloseAll(closeOk)
     /\ UNCHANGED execVars

LifecycleSpec == Init /\ [][LifecycleNext]_vars

\* Discovery requests, served concurrently.
DiscoverNext ==
  \/ /\ \E c \in Callers, t \in Targets, f \in DiscoveryFailures :
          DiscoverBegin(c, t, f)
     /\ UNCHANGED execVars
  \/ /\ \E c \in Callers : DiscoverCheck(c)
     /\ UNCHANGED execVars
  \/ /\ \E c \in Callers : DiscoverCreate(c)
     /\ UNCHANGED execVars
  \/ /\ \E c \in Callers : DiscoverEnd(c)
     /\ UNCHANGED execVars

DiscoverSpec == Init /\ [][DiscoverNext]_vars

\* The approval workflow as driven from the approvals page, next to
\* requests that name Approval Records by their own ids.
PageNext ==
  \/ \E caller \in Submitters, qtype \in queryTypeEnum :
       CreateQuery(caller, qtype) /\ UNCHANGED oracleVars
  \/ \E id \in QueryIdInputs : SubmitQuery(id) /\ UNCHANGED oracleVars
  \/ \E id \in ApprovalIdInputs, c \in Comments :
       ApproveApproval(id, c) /\ UNCHANGED oracleVars
  \/ \E id \in ApprovalIdInputs, c \in Comments :
       RejectApproval(id, c) /\ UNCHANGED oracleVars
  \/ \E u \in Users, id \in QueryIdInputs, c \in Comments :
       PageApprove(u, id, c) /\ UNCHANGED oracleVars
  \/ \E u \in Users, id \in QueryIdInputs, c \in Comments :
       PageReject(u, id, c) /\ UNCHANGED oracleVars

PageSpec == Init /\ [][PageNext]_vars

\* Submit and the decisions, with storage calls that can reject.
StorageSteps == {"updateQuery", "createApproval", "updateApproval",
                 "getQuery"}

FaultNext ==
  \/ \E caller \in Submitters, qtype \in queryTypeEnum :
       CreateQuery(caller, qtype) /\ UNCHANGED oracleVars
  \/ \E id \in QueryIdInputs : SubmitQuery(id) /\ UNCHANGED oracleVars
  \/ \E id \in ApprovalIdInputs, c \in Comments :
       ApproveApproval(id, c) /\ UNCHANGED oracleVars
  \/ \E id \in ApprovalIdInputs, c \in Comments :
       RejectApproval(id, c) /\ UNCHANGED oracleVars
  \/ \E id \in QueryIdInputs, f \in StorageSteps :
       SubmitQueryFailing(id, f) /\ UNCHANGED oracleVars
  \/ \E id \in ApprovalIdInputs, c \in Comments, f \in StorageSteps :
       ApproveApprovalFailing(id, c, f) /\ UNCHANGED oracleVars
  \/ \E id \in ApprovalIdInputs, c \in Comments, f \in StorageSteps :
       RejectApprovalFailing(id, c, f) /\ UNCHANGED oracleVars

FaultSpec == Init /\ [][FaultNext]_vars

\* An approver decides the pending Approval Record approvalId: one of
\* POST /api/approvals/:id/approve and POST /api/approvals/:id/reject.
Decide(approvalId) ==
  /\ ApprovalExists(approvalId)
  /\ approvals[approvalId].status = "pending"
  /\ \E c \in Comments :
       \/ ApproveApproval(approvalId, c)
       \/ RejectApproval(approvalId, c)
  /\ UNCHANGED oracleVars

\* The record store under create, PATCH, submit and the decisions, every
\* storage call succeeding.
LiveNext ==
  \/ \E caller \in Submitters, qtype \in queryTypeEnum :
       CreateQuery(caller, qtype) /\ UNCHANGED oracleVars
  \/ \E id \in QueryIdInputs, updates \in PatchBodies :
       PatchQuery(id, updates) /\ UNCHANGED oracleVars
  \/ \E id \in QueryIdInputs : SubmitQuery(id) /\ UNCHANGED oracleVars
  \/ \E id \in ApprovalIdInputs, c \in Comments :
       ApproveApproval(id, c) /\ UNCHANGED oracleVars
  \/ \E id \in ApprovalIdInputs, c \in Comments :
       RejectApproval(id, c) /\ UNCHANGED oracleVars

\* Every pending Approval Record is eventually decided: the approvers are
\* the only scheduling the server relies on.
LiveSpec ==
  /\ Init
  /\ [][LiveNext]_vars
  /\ \A a \in ApprovalIdInputs : WF_vars(Decide(a))

\* Execute requests on the approved record, served concurrently.
ExecuteNext ==
  \/ \E c \in Callers, id \in QueryIdInputs, u \in Users :
       ExecuteBegin(c, id, u)
  \/ \E c \in Callers, o \in Outcomes : ExecuteBackup(c, o)
  \/ \E c \in Callers, o \in Outcomes, rows \in Contents :
       ExecuteRun(c, o, rows)
  \/ \E c \in Callers : ExecuteEnd(c)
  \/ /\ Tick
     /\ UNCHANGED <<adminVars, execVars>>

ExecuteSpec == OracleSpecInit /\ [][ExecuteNext]_vars

PoolNext ==
  \/ /\ \E c \in Callers, t \in Targets : GetConnectionBegin(c, t)
     /\ UNCHANGED <<adminVars, execVars>>
  \/ /\ \E c \in Callers, ok \in BOOLEAN : CreatePoolEnd(c, ok)
     /\ Len(created') <= MaxPools
     /\ UNCHANGED <<adminVars, execVars>>
  \/ /\ \E c \in Callers, ok \in BOOLEAN : GetConnectionEnd(c, ok)
     /\ UNCHANGED <<adminVars, execVars>>
  \/ /\ \E c \in Callers : CloseConnection(c)
     /\ UNCHANGED <<adminVars, execVars>>
  \/ /\ \E closeOk \in [Targets -> BOOLEAN] : Shutdown(closeOk)
     /\ UNCHANGED execVars

PoolSpec == Init /\ [][PoolNext]_vars
\* ================================================================ claims
\* The Approval Records of query qid that are pending, in table as.
PendingOf(as, qid) ==
  {i \in DOMAIN as : as[i].queryId = qid /\ as[i].status = "pending"}

\* The Approval Records of query qid with the given role and status.
ApprovalsOf(as, qid, role, status) ==
  {i \in DOMAIN as : /\ as[i].queryId = qid
                     /\ as[i].approverType = role
                     /\ as[i].status = status}

\* A record classified mutating: every query type but select.
IsMutating(query) == query.queryType # "select"

\* The rollback metadata each rollback handler looks at: the canRollback
\* column for POST /api/queries/:id/rollback, the rollbackData column for
\* POST /oracle/rollback-query.
HasRollbackMetadata(op, query) ==
  IF op = "rollback" THEN query.canRollback ELSE query.rollbackData # NoBackup

\* C1: an execute request (either execute handler) on a record whose status
\* is not approved is answered 400 and leaves every Query Record and every
\* Approval Record as it was.
C1_ExecuteRefusedUnlessApproved ==
  [][ ( /\ res'.op \in {"execute", "oracle-execute"}
        /\ QueryExists(res'.id)
        /\ queries[res'.id].status # "approved" )
      => ( /\ res'.code = 400
           /\ queries' = queries
           /\ approvals' = approvals ) ]_vars

\* C1 witness: an execute request was refused on a record that had already
\* been executed.
C1_Witness ==
  /\ res.op = "execute"
  /\ res.code = 400
  /\ QueryExists(res.id)
  /\ queries[res.id].status = "executed"

\* C2: a rollback request on a record that is not in status executed, or
\* that carries no rollback metadata, is not answered 200 and leaves the
\* status unchanged.
C2_RollbackOnlyExecutedWithMetadata ==
  [][ ( /\ res'.op \in {"rollback", "oracle-rollback"}
        /\ QueryExists(res'.id)
        /\ ~ ( /\ queries[res'.id].status = "executed"
               /\ HasRollbackMetadata(res'.op, queries[res'.id]) ) )
      => ( /\ res'.code # 200
           /\ queries'[res'.id].status = queries[res'.id].status ) ]_vars

C4_OnePendingAfterSubmitAndTeamApproval ==
  [][ /\ ( ( /\ res'.op = "submit"
             /\ QueryExists(res'.id)
             /\ IsMutating(queries[res'.id]) )
           => ( /\ Len(approvals') = Len(approvals) + 1
                /\ approvals'[Len(approvals')].queryId = res'.id
                /\ approvals'[Len(approvals')].approverType = "team_manager"
                /\ approvals'[Len(approvals')].status = "pending" ) )
      /\ ( ( /\ res'.op = "approve"
             /\ ApprovalExists(res'.id)
             /\ approvals[res'.id].approverType = "team_manager"
             /\ approvals[res'.id].status = "pending"
             /\ IsMutating(queries[approvals[res'.id].queryId]) )
           => LET qid == approvals[res'.id].queryId
                  pending == PendingOf(approvals', qid)
              IN  /\ Cardinality(pending) = 1
                  /\ \A i \in pending :
                       approvals'[i].approverType = "skip_manager"
                  /\ approvals'[res'.id].status = "approved" ) ]_vars

\* C5: a reject request on an existing Approval Record sets the parent
\* Query Record to rejected in the same step, and while a query has a
\* rejected Approval Record no step creates an Approval Record for it.
C5_RejectEndsApprovalChain ==
  [][ /\ ( ( res'.op = "reject" /\ ApprovalExists(res'.id) )
           => queries'[approvals[res'.id].queryId].status = "rejected" )
      /\ \A qid \in DOMAIN queries :
           ( \E i \in DOMAIN approvals :
                approvals[i].queryId = qid /\ approvals[i].status = "rejected" )
           => ( Cardinality({i \in DOMAIN approvals' : approvals'[i].queryId = qid})
                  = Cardinality({i \in DOMAIN approvals : approvals[i].queryId = qid}) )
    ]_vars

\* C6: the approval of a pending team Approval Record whose parent is in
\* status submitted puts the parent in team_manager_approved and creates
\* one new pending skip Approval Record addressed to the parent's skip
\* approver; the approval of a pending skip Approval Record whose parent is
\* in team_manager_approved puts the parent in approved.
C6_ApprovalAdvancesTheChain ==
  [][ ( res'.op = "approve" /\ ApprovalExists(res'.id) )
      => LET a == approvals[res'.id]
             q == queries[a.queryId]
         IN  /\ ( ( /\ a.approverType = "team_manager"
                    /\ a.status = "pending"
                    /\ q.status = "submitted" )
                  => ( /\ queries'[a.queryId].status = "team_manager_approved"
                       /\ Len(approvals') = Len(approvals) + 1
                       /\ approvals'[Len(approvals')] =
                            [queryId |-> a.queryId,
                             approverType |-> "skip_manager",
                             approverId |-> q.skipManagerId,
                             status |-> "pending", comments |-> NoComment] ) )
             /\ ( ( /\ a.approverType = "skip_manager"
                    /\ a.status = "pending"
                    /\ q.status = "team_manager_approved" )
                  => queries'[a.queryId].status = "approved" ) ]_vars

\* C6 witness: the chain was walked to its end: the last request approved
\* a skip Approval Record, its parent is approved, and the parent's team
\* Approval Record is approved.
C6_Witness ==
  /\ res.op = "approve"
  /\ res.code = 200
  /\ approvals[res.id].approverType = "skip_manager"
  /\ approvals[res.id].status = "approved"
  /\ queries[approvals[res.id].queryId].status = "approved"
  /\ Len(approvals) = 2
  /\ approvals[1].approverType = "team_manager"
  /\ approvals[1].status = "approved"

\* C7: every mutating Query Record in status approved has exactly one
\* approved Approval Record of role team and exactly one of role skip.
C7_ApprovedHasBothApprovals ==
  \A qid \in DOMAIN queries :
    ( IsMutating(queries[qid]) /\ queries[qid].status = "approved" )
    => ( /\ Cardinality(ApprovalsOf(approvals, qid, "team_manager", "approved")) = 1
         /\ Cardinality(ApprovalsOf(approvals, qid, "skip_manager", "approved")) = 1 )

\* C8: the status of a Query Record becomes executed only in a step that
\* starts in approved, and becomes rolled_back only in a step that starts
\* in executed with rollback metadata present.
C8_ExecutedAndRolledBackOnlyInOrder ==
  [][ \A qid \in DOMAIN queries :
        /\ ( ( queries'[qid].status = "executed" /\ queries[qid].status # "executed" )
             => queries[qid].status = "approved" )
        /\ ( ( queries'[qid].status = "rolled_back"
               /\ queries[qid].status # "rolled_back" )
             => ( /\ queries[qid].status = "executed"
                  /\ ( queries[qid].canRollback
                       \/ queries[qid].rollbackData # NoBackup ) ) ) ]_vars

\* C9: an approve or reject request aimed at an Approval Record that is
\* already approved or rejected is refused and leaves that record as it was.
C9_DecisionRecordedOnce ==
  [][ ( /\ res'.op \in {"approve", "reject"}
        /\ ApprovalExists(res'.id)
        /\ approvals[res'.id].status \in {"approved", "rejected"} )
      => ( /\ res'.code # 200
           /\ approvals'[res'.id] = approvals[res'.id] ) ]_vars

\* C10: every Query Record has at most one pending Approval Record.
C10_AtMostOnePending ==
  \A qid \in DOMAIN queries : Cardinality(PendingOf(approvals, qid)) <= 1

\* The status the parent Query Record is expected to have when an Approval
\* Record of the given role is decided.
ExpectedParentStatus(approverType) ==
  IF approverType = "team_manager" THEN "submitted" ELSE "team_manager_approved"

\* C11: an approve or reject request on an Approval Record whose parent
\* Query Record is not in the status expected for the record's role
\* (submitted for team, team-approved for skip) is refused and changes
\* neither the Approval Record nor the Query Record.
C11_DecisionNeedsExpectedParentStatus ==
  [][ ( /\ res'.op \in {"approve", "reject"}
        /\ res'.id \in DOMAIN approvals
        /\ queries[approvals[res'.id].queryId].status
             # ExpectedParentStatus(approvals[res'.id].approverType) )
      => ( /\ res'.code # 200
           /\ approvals' = approvals
           /\ queries' = queries ) ]_vars

\* C12: an approve or reject request naming an id that no Approval Record
\* has is refused: no record is created and none is changed.
C12_UnknownApprovalIdRefused ==
  [][ ( /\ res'.op \in {"approve", "reject"}
        /\ res'.id \notin DOMAIN approvals )
      => ( /\ res'.code # 200
           /\ approvals' = approvals
           /\ queries' = queries ) ]_vars

\* C12 witness: a reject request on an unknown id has been refused while
\* Approval Records exist.
C12_Witness ==
  /\ res.op = "reject"
  /\ res.code = 500
  /\ res.id \notin DOMAIN approvals
  /\ Len(approvals) > 0

\* The pools made for target t, in the sequence cs.
PoolsOf(cs, t) == {i \in DOMAIN cs : cs[i] = t}

\* C13: of two successive getConnection calls for one target the first
\* creates the pool and the second creates nothing and uses the same
\* pool: a step leaves a cached pool in place and makes no further pool for
\* its target, a step that caches a pool makes exactly that one, and the
\* pool a call returns is the cached one.
C13_SuccessiveCallsShareOnePool ==
  [][ \A t \in Targets :
        LET made == PoolsOf(created', t) \ PoolsOf(created, t)
        IN  /\ t \in DOMAIN pools
                 => ( /\ t \in DOMAIN pools'
                      /\ pools'[t] = pools[t]
                      /\ made = {} )
            /\ t \notin DOMAIN pools
                 => IF t \in DOMAIN pools'
                      THEN made = {pools'[t]}
                      ELSE made = {}
            /\ ( got'.serverId = t /\ got'.pool # 0 )
                 => ( t \in DOMAIN pools' /\ got'.pool = pools'[t] ) ]_vars

\* C13 witness: an Execute made its two calls, one for the backup and one
\* for the statement, both succeeded, and one pool exists.
C13_Witness ==
  /\ res.op = "oracle-execute"
  /\ res.code = 200
  /\ queries[res.id].rollbackData.success
  /\ got = [serverId |-> QueryServer, pool |-> pools[QueryServer]]
  /\ Cardinality(PoolsOf(created, QueryServer)) = 1

\* C14: when requests call getConnection concurrently for a target that has
\* no pool yet, at most one pool is made for it: no target ever has more
\* than one pool.
C14_OnePoolPerTargetUnderConcurrency ==
  \A t \in Targets : Cardinality(PoolsOf(created, t)) <= 1

C16_NoConnectionOutlivesItsOperation ==
  \A t \in Targets : open[t] = 0

MutatingWithTable(content) ==
  content \in {"INSERT INTO t", "UPDATE t", "DELETE FROM t"}

\* C19: an Execute of a mutating statement (INSERT, UPDATE, DELETE) whose
\* table can be extracted makes the snapshot and records its name as
\* rollback metadata; when the table cannot be extracted the statement runs
\* without backup and the record is left marked not rollback-capable.
C19_MutatingExecuteRecordsSnapshot ==
  [][ ( /\ res'.op = "oracle-execute"
        /\ res'.code = 200
        /\ queries[res'.id].status = "approved"
        /\ queries[res'.id].content # "SELECT FROM t" )
      => LET before == queries[res'.id]
             after  == queries'[res'.id]
         IN  IF MutatingWithTable(before.content)
               THEN /\ after.rollbackData.success
                    /\ after.rollbackData.backupTableName
                         \in DOMAIN backups' \ DOMAIN backups
               ELSE /\ after.rollbackData = NoBackup
                    /\ ~after.canRollback
                    /\ backups' = backups ]_vars

\* The callers the role check of the authorization layer (requireRole)
\* lets decide an Approval Record of the given role.
MayDecide(userId, approverType) ==
  UserRole(userId) = approverType \/ UserRole(userId) = "skip_manager"

\* The approve and reject handlers as run for caller userId:
\* userId = req.user.claims.sub is read and not used.
DecideBy(userId, approvalId, comments) ==
  \/ ApproveApproval(approvalId, comments)
  \/ RejectApproval(approvalId, comments)

\* C20: a state-changing request is checked against the caller's
\* permission first, and a caller who is denied changes no record; here:
\* an approve or reject request by a caller who may not decide the Approval
\* Record, and a rollback request by a caller who is no skip manager.
C20_DeniedCallerChangesNothing ==
  [][ /\ \A u \in Users, id \in ApprovalIdInputs, c \in Comments :
           ( /\ DecideBy(u, id, c)
             /\ ApprovalExists(id)
             /\ ~MayDecide(u, approvals[id].approverType) )
           => ( queries' = queries /\ approvals' = approvals )
      /\ \A u \in Users, id \in QueryIdInputs :
           ( RollbackQuery(id) /\ UserRole(u) # "skip_manager" )
           => queries' = queries ]_vars

\* A rollback request of caller userId for record id, on either rollback
\* route; POST /api/queries/:id/rollback does not read the caller.
RollbackBy(userId, id) ==
  \/ RollbackQuery(id)
  \/ \E r \in BOOLEAN : OracleRollbackQuery(id, userId, r)

\* C21: a rollback request by a caller who does not hold the skip-approver
\* role is denied, and the executed Query Record it names stays executed.
C21_RollbackNeedsSkipApproverRole ==
  [][ \A u \in Users, id \in QueryIdInputs :
        ( /\ UserRole(u) # "skip_manager"
          /\ QueryExists(id)
          /\ queries[id].status = "executed"
          /\ RollbackBy(u, id) )
        => ( /\ res'.code # 200
             /\ queries'[id].status = "executed" ) ]_vars

\* C30: no operation moves a Query Record out of rejected, failed or
\* rolled_back, and none moves one out of executed except a rollback of a
\* record that carries rollback metadata.
C30_SinkStatusesAreLeftOnlyByRollback ==
  [][ \A id \in DOMAIN queries :
        /\ queries[id].status \in {"rejected", "failed", "rolled_back"}
             => queries'[id].status = queries[id].status
        /\ ( /\ queries[id].status = "executed"
             /\ queries'[id].status # "executed" )
             => ( /\ res'.op \in {"rollback", "oracle-rollback"}
                  /\ res'.id = id
                  /\ HasRollbackMetadata(res'.op, queries[id])
                  /\ queries'[id].status = "rolled_back" ) ]_vars

\* C25: a connection test, for one target or for all, leaves the pool cache
\* as it is: it neither creates, replaces nor removes the cached pool of any
\* target, whether the test succeeds or fails.
C25_ConnectionTestLeavesPoolCache ==
  [][ res'.op \in {"test-connection", "test-all-connections"}
      => ( pools' = pools /\ created' = created ) ]_vars

DryRunOps == {"oracle-dry-run", "service-dry-run"}

\* C22: a dry run of a mutating statement, whether it returns a plan or an
\* error, leaves the tables of the target as they were: the statement's
\* table keeps its contents.
C22_DryRunLeavesTargetTable ==
  [][ ( /\ res'.op \in DryRunOps
        /\ IsDml(dry'.content) )
      => tables' = tables ]_vars

C22_Witness ==
  /\ res.op = "oracle-dry-run"
  /\ dry.success
  /\ dry.content = "DELETE FROM t"
  /\ dry.estimate = "COUNT"
  /\ tables[SessionSchema] = "rows0"

C24_UnknownEstimateIsMarked ==
  [][ \A content \in {c \in Statements : IsDml(c)}, kept \in BOOLEAN :
        /\ \A f \in {"none", "retrieve"} :
             ( /\ f = "retrieve" \/ convertToCountQuery(content) = "null"
               /\ OracleDryRun(QueryServer, content, f, kept) )
             => ( /\ res'.code = 200
                  /\ dry'.estimate = "Unknown" )
        /\ \A cardinality, cleanupOk \in BOOLEAN :
             ServiceExecuteDryRun(QueryServer, content, "retrieve",
                                  cardinality, cleanupOk, kept)
             => dry'.estimate = "Unknown" ]_vars

\* C26: closing all pools leaves the cache empty and closes every cached
\* pool whose close succeeds, whichever other pools fail to close.
C26_CloseAllClosesEveryPool ==
  [][ \A closeOk \in [Targets -> BOOLEAN] :
        /\ Shutdown(closeOk)
             => ( /\ pools' = <<>>
                  /\ \A t \in DOMAIN pools :
                       closeOk[t] => pools[t] \in closed' )
        /\ ServiceCloseAll(closeOk)
             => ( /\ connections' = <<>>
                  /\ \A t \in DOMAIN connections :
                       closeOk[t] => connections[t] \in closed' ) ]_vars

C26_Witness ==
  /\ res.op = "shutdown"
  /\ pools = <<>>
  /\ connections = <<>>
  /\ Len(created) = 2
  /\ created[1] # created[2]
  /\ closed = {2}

\* C27: when the creation of a pool fails, the caller gets the error, no
\* pool is made or cached for the target by that call, and the target
\* stays without a pool, so that the next call creates one again.
C27_FailedPoolCreationCachesNothing ==
  [][ /\ ( /\ res'.op \in {"test-connection", "server-status"}
           /\ res' # res \/ got' # got
           /\ got'.pool = 0 )
         => ( /\ res'.code = 500
              /\ pools' = pools
              /\ created' = created
              /\ got'.serverId \notin DOMAIN pools' )
      /\ \A t \in Targets :
           ServiceCreatePool(t, FALSE)
           => ( /\ res'.code = 500
                /\ connections' = connections
                /\ created' = created ) ]_vars

C27_Witness ==
  /\ res = Response("test-connection", 0, 500)
  /\ got.pool = 0
  /\ got.serverId \notin DOMAIN pools
  /\ created = <<>>

\* The rows of the catalog that stand for table pair of target serverId.
RowsOf(serverId, pair) ==
  {i \in DOMAIN catalog :
     catalog[i].id = <<serverId, pair.schemaName, pair.tableName>>}

\* C28: however many discovery runs for one target have been served, one
\* after another or interleaved, the catalog holds at most one row per
\* schema and table of that target.
C28_CatalogHoldsEachTableOnce ==
  \A t \in Targets, k \in DOMAIN DiscoveredTables :
    Cardinality(RowsOf(t, DiscoveredTables[k])) <= 1

C28_Witness ==
  /\ \A k \in DOMAIN DiscoveredTables :
       Cardinality(RowsOf(QueryServer, DiscoveredTables[k])) = 1
  /\ \A c \in Callers : disc[c].pc = "create" /\ Len(disc[c].todo) = 1
  /\ \A c \in Callers : ~disc[c].existing

\* The tables of a discovery without table k.
WithoutTable(k) ==
  SelectSeq(DiscoveredTables, LAMBDA t : t # DiscoveredTables[k])

\* C29: when the columns query fails for one table, the discovery run
\* still succeeds and goes on with the other tables, leaving that one out.
C29_ColumnFailureLeavesOneTableOut ==
  [][ \A c \in Callers, t \in Targets, k \in DOMAIN DiscoveredTables :
        DiscoverBegin(c, t, IF k = 1 THEN "columns1" ELSE "columns2")
        => ( /\ res'.code # 500
             /\ disc'[c].pc = "check"
             /\ disc'[c].todo = WithoutTable(k) ) ]_vars

\* The columns of a Query Record that are not dry-run fields.
NotDryRunFields(query) == DOMAIN query \ {"isDryRun"}

C40_NoApprovalByTheSubmitter ==
  \A a \in DOMAIN approvals :
    approvals[a].approverId # queries[approvals[a].queryId].submittedBy

C37_ListedItemsCanBeDecided ==
  [][ \A u \in Users, id \in QueryIdInputs, c \in Comments :
        ( \/ PageApprove(u, id, c)
          \/ PageReject(u, id, c) )
        => ( /\ res'.code = 200
             /\ queries'[id].status # queries[id].status ) ]_vars

\* Pool p is the one a cache holds for its target.
IsCached(p) ==
  \/ created[p] \in DOMAIN pools /\ pools[created[p]] = p
  \/ created[p] \in DOMAIN connections /\ connections[created[p]] = p

\* C34: every pool that was created and is not closed is the pool cached
\* for its target.
C34_NoPoolIsLeaked ==
  \A p \in DOMAIN created : p \notin closed => IsCached(p)

\* C35: a submit, approve or reject request that fails at one of its
\* storage steps leaves every Query Record and every Approval Record as it
\* was before the request.
C35_FailedHandlerLeavesNoPartialEffect ==
  [][ ( /\ res'.op \in {"submit", "approve", "reject"}
        /\ res'.code = 500 )
      => ( /\ queries' = queries
           /\ approvals' = approvals ) ]_vars

\* C31: the statement of a Query Record runs on the target at most once,
\* however its Execute requests overlap.
C31_StatementRunsAtMostOnce ==
  \A id \in QueryIdInputs : runs[id] <= 1

\* C36: two Execute requests that have each named a backup table for the
\* same table have named different tables, also when both read the clock
\* at the same reading.
C36_BackupNamesDiffer ==
  \A c1, c2 \in Callers :
    ( /\ c1 # c2
      /\ executing[c1].backupTableName # 0
      /\ executing[c2].backupTableName # 0 )
    => executing[c1].backupTableName # executing[c2].backupTableName

\* C32: when every pending Approval Record is eventually decided and no
\* storage call fails, a mutating Query Record whose status is submitted
\* eventually has the status approved or rejected.
C32_SubmittedRecordIsEventuallyDecided ==
  \A id \in QueryIdInputs :
    ( /\ QueryExists(id)
      /\ queries[id].queryType = "update"
      /\ queries[id].status = "submitted" )
    ~> ( /\ QueryExists(id)
         /\ queries[id].status \in {"approved", "rejected"} )
====
